---- MODULE Spec2Model ----
(***************************************************************************)
(* Model of tool-upgrade-go (upgrade.go): the time-gated update check      *)
(* CheckAndNotifyIfOutOfDate, the downloader Download, RemoveBackup and    *)
(* the backup / rename / copy / rollback sequence of Upgrade.              *)
(*                                                                         *)
(* Every statement of the Go code that touches the file system, the        *)
(* network or the clock is one action; a statement that can fail has one   *)
(* disjunct per outcome.  Time is counted in hours.                        *)
(***************************************************************************)
EXTENDS Integers, Sequences, FiniteSets, TLC

\* ------------------------------------------------------------------------
\* Bounds of the model
\* ------------------------------------------------------------------------
MaxTime == 3
MaxInterval == 2
\* calls one behaviour makes: of CheckAndNotifyIfOutOfDate, of Upgrade, of both
MaxChecks == 2
MaxUpgrades == 2
MaxCalls == 2

Procs == {1, 2}
Intervals == 0..MaxInterval

\* ------------------------------------------------------------------------
\* Version strings (sequences of characters) and the semver value they
\* parse to.  CurrentVersion and AvailableVersion both hand the string to
\* semver.Make: MAJOR.MINOR.PATCH, digits only, no leading zeroes.
\* ------------------------------------------------------------------------
Digits == <<"0", "1", "2", "3", "4", "5", "6", "7", "8", "9">>

IsDigit(c) == \E i \in 1..10 : Digits[i] = c

DigitVal(c) == (CHOOSE i \in 1..10 : Digits[i] = c) - 1

IndexOf(s, c) ==
    IF \E i \in 1..Len(s) : s[i] = c
    THEN CHOOSE i \in 1..Len(s) : s[i] = c /\ \A j \in 1..(i - 1) : s[j] # c
    ELSE 0

ContainsOnlyDigits(s) == \A i \in 1..Len(s) : IsDigit(s[i])

HasLeadingZeroes(s) == Len(s) > 1 /\ s[1] = "0"

RECURSIVE ParseUint(_)
ParseUint(s) ==
    IF Len(s) = 0 THEN 0
    ELSE 10 * ParseUint(SubSeq(s, 1, Len(s) - 1)) + DigitVal(s[Len(s)])

ValidNumber(s) == Len(s) > 0 /\ ContainsOnlyDigits(s) /\ ~HasLeadingZeroes(s)

ZeroVersion == <<0, 0, 0>>

\* semver.Make(s): [ok, v]; v is the zero Version when the parse fails.
Make(s) ==
    LET i1   == IndexOf(s, ".")
        rest == SubSeq(s, i1 + 1, Len(s))
        i2   == IndexOf(rest, ".")
        p0   == SubSeq(s, 1, i1 - 1)
        p1   == SubSeq(rest, 1, i2 - 1)
        p2   == SubSeq(rest, i2 + 1, Len(rest))
    IN  IF Len(s) = 0 \/ i1 = 0 \/ i2 = 0
        THEN [ok |-> FALSE, v |-> ZeroVersion]
        ELSE IF ValidNumber(p0) /\ ValidNumber(p1) /\ ValidNumber(p2)
             THEN [ok |-> TRUE, v |-> <<ParseUint(p0), ParseUint(p1), ParseUint(p2)>>]
             ELSE [ok |-> FALSE, v |-> ZeroVersion]

\* Version.Compare: -1, 0, 1 by major, then minor, then patch.
Compare(a, b) ==
    IF a[1] # b[1] THEN (IF a[1] > b[1] THEN 1 ELSE -1)
    ELSE IF a[2] # b[2] THEN (IF a[2] > b[2] THEN 1 ELSE -1)
    ELSE IF a[3] # b[3] THEN (IF a[3] > b[3] THEN 1 ELSE -1)
    ELSE 0

GT(a, b) == Compare(a, b) = 1

GTE(a, b) == Compare(a, b) >= 0

\* strconv.FormatUint for the numbers the model meets (below 100).
FormatUint(n) ==
    IF n < 10 THEN <<Digits[n + 1]>>
    ELSE <<Digits[(n \div 10) + 1], Digits[(n % 10) + 1]>>

\* Version.String(): "MAJOR.MINOR.PATCH"
String(v) == FormatUint(v[1]) \o <<".">> \o FormatUint(v[2]) \o <<".">> \o FormatUint(v[3])

V122 == <<"1", ".", "2", ".", "2">>

V123 == <<"1", ".", "2", ".", "3">>

V1100 == <<"1", ".", "1", "0", ".", "0">>

V12 == <<"1", ".", "2">>

\* the version strings a caller passes / the channel file holds
CurrentStrings == {V122, V123, V12}

ChannelStrings == {V122, V123, V1100, V12}

\* ------------------------------------------------------------------------
\* Files
\* ------------------------------------------------------------------------
NoVer == <<>>

Absent == [kind |-> "absent", ver |-> NoVer]

\* the bytes of the running executable before any upgrade
Orig == [kind |-> "orig", ver |-> NoVer]

\* a backup left behind by an earlier upgrade
Stale == [kind |-> "stale", ver |-> NoVer]

\* a file that was created or opened for writing and not completely written
Partial == [kind |-> "partial", ver |-> NoVer]

\* the complete bytes the binary endpoint serves for version string ver
Bin(ver) == [kind |-> "bin", ver |-> ver]

NoMarker == [exists |-> FALSE, mtime |-> 0, size |-> 0]

\* errors are values; "nil" is Go's nil error
Nil == "nil"

\* errors.Wrap(err, msg): nil when err is nil, else an error carrying msg
Wrap(err, msg) == IF err = Nil THEN Nil ELSE msg

VARIABLES
    now,            \* wall clock, hours
    marker,         \* <home>/.<tool>-version-check: [exists, mtime, size]
    selfFile,       \* content at os.Executable()
    backupFile,     \* content at os.Executable() + "~"
    tmpFiles,       \* the temp files created so far, by number: their content
    currentVersion, \* argument currentVersion
    channelBody,    \* what the version channel endpoint serves
    hoursToCheck,   \* argument hoursToCheckForUpdate
    active,         \* the processes that run the tool
    requests,       \* HTTP GETs issued so far
    notices,        \* "A new version ... is available" lines printed
    parses,         \* calls of CurrentVersion so far
    calls,          \* calls of CheckAndNotifyIfOutOfDate / Upgrade started
    limit,          \* calls the behaviour may start
    pc,             \* per process: the statement it is at
    callId,         \* per process: tmpfn, the number of the temp file Download created
    force,          \* per process: *upgradeForce
    curr,           \* per process: local curr
    avail,          \* per process: local avail
    tmp,            \* per process: local tmp (0 is "", else the call's temp file)
    err,            \* per process: local err
    gateAt,         \* per process: time.Now() read at line 65
    steps,          \* per process: the steps its running call has taken
    pre,            \* per process: the disk and counters when the call began
    ret             \* per process: what its last call returned

fsVars == <<selfFile, backupFile, tmpFiles>>

inputVars == <<currentVersion, channelBody, hoursToCheck, active, limit>>

netVars == <<requests, notices, parses>>

localVars == <<force, curr, avail, tmp, err, gateAt>>

vars == <<now, marker, selfFile, backupFile, tmpFiles, currentVersion, channelBody,
          hoursToCheck, active, limit, requests, notices, parses, calls, pc, callId,
          force, curr, avail, tmp, err, gateAt, steps, pre, ret>>

NoRet == [op |-> "none", val |-> FALSE, err |-> Nil, how |-> "none"]

Snapshot ==
    [self |-> selfFile, backup |-> backupFile, tmps |-> tmpFiles, marker |-> marker,
     nreq |-> Len(requests), notices |-> notices, parses |-> parses, at |-> now]

NoSnapshot ==
    [self |-> Orig, backup |-> Absent, tmps |-> <<>>, marker |-> NoMarker,
     nreq |-> 0, notices |-> 0, parses |-> 0, at |-> 0]

InitCommon ==
    /\ now = 0
    /\ selfFile = Orig
    /\ tmpFiles = <<>>
    /\ currentVersion \in CurrentStrings
    /\ channelBody \in ChannelStrings
    /\ requests = <<>>
    /\ notices = 0
    /\ parses = 0
    /\ calls = 0
    /\ pc = [p \in Procs |-> "idle"]
    /\ callId = [p \in Procs |-> 0]
    /\ force = [p \in Procs |-> FALSE]
    /\ curr = [p \in Procs |-> ZeroVersion]
    /\ avail = [p \in Procs |-> ZeroVersion]
    /\ tmp = [p \in Procs |-> 0]
    /\ err = [p \in Procs |-> Nil]
    /\ gateAt = [p \in Procs |-> 0]
    /\ steps = [p \in Procs |-> <<>>]
    /\ pre = [p \in Procs |-> NoSnapshot]
    /\ ret = [p \in Procs |-> NoRet]

Markers == {NoMarker} \cup [exists : {TRUE}, mtime : {0}, size : {0, 1}]

Backups == {Absent, Stale}

\* one process runs the tool and calls CheckAndNotifyIfOutOfDate and Upgrade
Init ==
    /\ InitCommon
    /\ marker \in Markers
    /\ backupFile \in Backups
    /\ hoursToCheck \in Intervals
    /\ active = {1}
    /\ limit = MaxCalls

\* one process runs the tool and calls CheckAndNotifyIfOutOfDate only
InitCheck ==
    /\ InitCommon
    /\ marker \in Markers
    /\ backupFile = Absent
    /\ hoursToCheck \in Intervals
    /\ active = {1}
    /\ limit = MaxChecks

\* one process runs the tool as the README's main does: it finds a marker from
\* an earlier run and calls CheckAndNotifyIfOutOfDate and Upgrade
InitMain ==
    /\ InitCommon
    /\ marker = [exists |-> TRUE, mtime |-> 0, size |-> 0]
    /\ backupFile = Absent
    /\ hoursToCheck \in Intervals
    /\ active = {1}
    /\ limit = MaxCalls

\* two processes run the tool's main at the same time, on the same marker and
\* the same executable, with a newer version in the channel
InitRace ==
    /\ InitCommon
    /\ currentVersion = V122
    /\ channelBody = V123
    /\ marker = [exists |-> TRUE, mtime |-> 0, size |-> 0]
    /\ backupFile = Absent
    /\ hoursToCheck = MaxInterval
    /\ active = Procs
    /\ limit = 2 * MaxCalls

\* one process runs the tool and calls Upgrade only
InitUpgrade ==
    /\ InitCommon
    /\ marker = NoMarker
    /\ backupFile \in Backups
    /\ hoursToCheck = 0
    /\ active = {1}
    /\ limit = MaxUpgrades

\* ------------------------------------------------------------------------
\* Helpers for actions
\* ------------------------------------------------------------------------
Goto(p, label) == pc' = [pc EXCEPT ![p] = label]

Step(p, s) == steps' = [steps EXCEPT ![p] = Append(@, s)]

\* a return statement of op: the call ends and its result is recorded
Return(p, op, val, e, how) ==
    /\ pc' = [pc EXCEPT ![p] = "idle"]
    /\ ret' = [ret EXCEPT ![p] = [op |-> op, val |-> val, err |-> e, how |-> how]]

Begin(p, label) ==
    /\ p \in active
    /\ pc[p] = "idle"
    /\ calls < limit
    /\ calls' = calls + 1
    /\ callId' = [callId EXCEPT ![p] = 0]
    /\ pc' = [pc EXCEPT ![p] = label]
    /\ steps' = [steps EXCEPT ![p] = <<>>]
    /\ pre' = [pre EXCEPT ![p] = Snapshot]
    /\ ret' = [ret EXCEPT ![p] = NoRet]
    /\ tmp' = [tmp EXCEPT ![p] = 0]
    /\ err' = [err EXCEPT ![p] = Nil]
    /\ curr' = [curr EXCEPT ![p] = ZeroVersion]
    /\ avail' = [avail EXCEPT ![p] = ZeroVersion]

Request(p, kind, ver) ==
    requests' = Append(requests, [kind |-> kind, ver |-> ver, at |-> now, by |-> p])

\* (variant: the error of semver.Make is dropped)
AvailableVersionUnchecked(outcome) ==
    IF outcome = "ok"
    THEN [v |-> Make(channelBody).v, err |-> Nil]
    ELSE [v |-> ZeroVersion, err |-> outcome]

\* AvailableVersion: the result for each outcome of the GET and of the parse
AvailableVersion(outcome) ==
    IF outcome = "ok"
    THEN LET m == Make(channelBody)
         IN  [v |-> m.v, err |-> IF m.ok THEN Nil ELSE "InvalidVersionFormat"]
    ELSE [v |-> ZeroVersion, err |-> outcome]

HttpOutcomes == {"ok", "NetworkError", "UnexpectedStatus", "ReadError"}

\* the clock advances; a call takes less than one hour of the clock
Tick ==
    /\ now < MaxTime
    /\ \A p \in Procs : pc[p] = "idle"
    /\ now' = now + 1
    /\ UNCHANGED <<marker, fsVars, inputVars, netVars, calls, pc, callId,
                   localVars, steps, pre, ret>>

\* ------------------------------------------------------------------------
\* CheckAndNotifyIfOutOfDate
\* ------------------------------------------------------------------------
\* (variant: a created marker carries the zero time)
OpenedMarkerEpoch(m, t) == IF m.exists THEN m ELSE [exists |-> TRUE, mtime |-> 0, size |-> 0]

\* (variant: the file is opened with O_TRUNC as well)
OpenedMarkerTruncating(m, t) == [exists |-> TRUE, mtime |-> t, size |-> 0]

\* os.OpenFile(fn, O_CREATE|O_RDWR, 0644): an existing file is opened as it
\* is, a missing one is created empty with the current time
OpenedMarker(m, t) == IF m.exists THEN m ELSE [exists |-> TRUE, mtime |-> t, size |-> 0]

\* (variant: <= in place of <)
GateSkipsInclusive(t, mtime, interval) == t - mtime <= interval

\* diff.Hours() < hoursToCheckForUpdate, diff = time.Now().Sub(fi.ModTime())
GateSkips(t, mtime, interval) == t - mtime < interval

\* (variant: the truncation of an empty file leaves its mtime)
TruncatedKeepingMtime(m, t) == [m EXCEPT !.size = 0]

\* file.Truncate(0), "update mtime": the file is emptied and its mtime set
Truncated(m, t) == [m EXCEPT !.mtime = t, !.size = 0]

\* (variant: avail.GTE(curr))
OutOfDateOrEqual(a, c) == GTE(a, c)

\* avail.GT(curr)
OutOfDate(a, c) == GT(a, c)

CheckStart(p) ==
    /\ Begin(p, "c_open")
    /\ UNCHANGED <<now, marker, fsVars, inputVars, netVars, force, gateAt>>

CheckOpenFail(p) ==
    /\ pc[p] = "c_open"
    /\ Step(p, "openFail")
    /\ Return(p, "Check", FALSE, "CacheIOError", "openFail")
    /\ UNCHANGED <<now, marker, fsVars, inputVars, netVars, calls, callId, localVars, pre>>

CheckOpen(p) ==
    /\ pc[p] = "c_open"
    /\ marker' = OpenedMarker(marker, now)
    /\ Step(p, "open")
    /\ Goto(p, "c_gate")
    /\ UNCHANGED <<now, fsVars, inputVars, netVars, calls, callId, localVars, pre, ret>>

CheckStatFail(p) ==
    /\ pc[p] = "c_gate"
    /\ Step(p, "statFail")
    /\ Return(p, "Check", FALSE, "CacheIOError", "statFail")
    /\ UNCHANGED <<now, marker, fsVars, inputVars, netVars, calls, callId, localVars, pre>>

CheckGateSkip(p) ==
    /\ pc[p] = "c_gate"
    /\ GateSkips(now, marker.mtime, hoursToCheck)
    /\ gateAt' = [gateAt EXCEPT ![p] = now]
    /\ Step(p, "skip")
    /\ Return(p, "Check", FALSE, Nil, "skip")
    /\ UNCHANGED <<now, marker, fsVars, inputVars, netVars, calls, callId,
                   force, curr, avail, tmp, err, pre>>

\* (variant: passing the gate claims the marker in the same step)
CheckGatePassClaiming(p) ==
    /\ pc[p] = "c_gate"
    /\ ~GateSkips(now, marker.mtime, hoursToCheck)
    /\ marker' = Truncated(marker, now)
    /\ gateAt' = [gateAt EXCEPT ![p] = now]
    /\ Step(p, "pass")
    /\ Goto(p, "c_trunc")
    /\ UNCHANGED <<now, fsVars, inputVars, netVars, calls, callId,
                   force, curr, avail, tmp, err, pre, ret>>

CheckGatePass(p) ==
    /\ pc[p] = "c_gate"
    /\ ~GateSkips(now, marker.mtime, hoursToCheck)
    /\ gateAt' = [gateAt EXCEPT ![p] = now]
    /\ Step(p, "pass")
    /\ Goto(p, "c_trunc")
    /\ UNCHANGED <<now, marker, fsVars, inputVars, netVars, calls, callId,
                   force, curr, avail, tmp, err, pre, ret>>

CheckTruncateFail(p) ==
    /\ pc[p] = "c_trunc"
    /\ Step(p, "truncateFail")
    /\ Return(p, "Check", FALSE, "CacheIOError", "truncateFail")
    /\ UNCHANGED <<now, marker, fsVars, inputVars, netVars, calls, callId, localVars, pre>>

CheckTruncate(p) ==
    /\ pc[p] = "c_trunc"
    /\ marker' = Truncated(marker, now)
    /\ Step(p, "truncate")
    /\ Goto(p, "c_curr")
    /\ UNCHANGED <<now, fsVars, inputVars, netVars, calls, callId, localVars, pre, ret>>

CheckCurrent(p) ==
    /\ pc[p] = "c_curr"
    /\ parses' = parses + 1
    /\ LET m == Make(currentVersion)
       IN  IF m.ok
           THEN /\ curr' = [curr EXCEPT ![p] = m.v]
                /\ Step(p, "current")
                /\ Goto(p, "c_avail")
                /\ UNCHANGED ret
           ELSE /\ Step(p, "currentFail")
                /\ Return(p, "Check", FALSE, "InvalidVersionFormat", "currentFail")
                /\ UNCHANGED curr
    /\ UNCHANGED <<now, marker, fsVars, inputVars, requests, notices, calls, callId,
                   force, avail, tmp, err, gateAt, pre>>

CheckAvailable(p) ==
    /\ pc[p] = "c_avail"
    /\ Request(p, "version", channelBody)
    /\ \E o \in HttpOutcomes :
         LET r == AvailableVersion(o)
         IN  IF r.err = Nil
             THEN /\ avail' = [avail EXCEPT ![p] = r.v]
                  /\ Step(p, "available")
                  /\ Goto(p, "c_cmp")
                  /\ UNCHANGED ret
             ELSE /\ Step(p, "availableFail")
                  /\ Return(p, "Check", FALSE, r.err, "availableFail")
                  /\ UNCHANGED avail
    /\ UNCHANGED <<now, marker, fsVars, inputVars, notices, parses, calls, callId,
                   force, curr, tmp, err, gateAt, pre>>

CheckCompare(p) ==
    /\ pc[p] = "c_cmp"
    /\ IF OutOfDate(avail[p], curr[p])
       THEN /\ notices' = notices + 1
            /\ Step(p, "notice")
            /\ Return(p, "Check", TRUE, Nil, "outOfDate")
       ELSE /\ UNCHANGED notices
            /\ Step(p, "current")
            /\ Return(p, "Check", FALSE, Nil, "upToDate")
    /\ UNCHANGED <<now, marker, fsVars, inputVars, requests, parses, calls, callId,
                   localVars, pre>>

CheckAndNotifyIfOutOfDate(p) ==
    \/ CheckStart(p)
    \/ CheckOpenFail(p)
    \/ CheckOpen(p)
    \/ CheckStatFail(p)
    \/ CheckGateSkip(p)
    \/ CheckGatePass(p)
    \/ CheckTruncateFail(p)
    \/ CheckTruncate(p)
    \/ CheckCurrent(p)
    \/ CheckAvailable(p)
    \/ CheckCompare(p)

\* ------------------------------------------------------------------------
\* Upgrade, RemoveBackup, Download
\* ------------------------------------------------------------------------
\* (variant: the force flag is not consulted)
UpToDateIgnoringForce(f, c, a) == GTE(c, a)

\* (variant: curr.GT(avail) in place of curr.GTE(avail))
UpToDateStrict(f, c, a) == ~f /\ GT(c, a)

\* !*upgradeForce && curr.GTE(avail)
UpToDate(f, c, a) == ~f /\ GTE(c, a)

\* (variant: the deferred function never removes the temp file)
DeferredCleanupNever(files, id, e) == files

\* (variant: the deferred function removes the temp file on every return)
DeferredCleanupAlways(files, id, e) == [files EXCEPT ![id] = Absent]

\* the deferred function of Download: tmp.Close(); if err != nil, os.Remove(tmpfn).
\* e is the value of Download's variable err when the function returns.
DeferredCleanup(files, id, e) == IF e # Nil THEN [files EXCEPT ![id] = Absent] ELSE files

\* (variant: the executable is removed instead of being moved to the backup)
BackedUpLost(self, backup) == [self |-> Absent, backup |-> backup]

\* os.Rename(arg0, backup) that succeeded: the two files afterwards
BackedUp(self, backup) == [self |-> Absent, backup |-> self]

\* (variant: the recovery leaves arg0 as the failed copy left it)
RestoredNot(self, backup) == [self |-> self, backup |-> backup]

\* os.Rename(backup, arg0) that succeeded: the two files afterwards
Restored(self, backup) == [self |-> backup, backup |-> Absent]

\* (variant: the copy reports success after a short write)
CopiedShort(src) == Partial

\* shutil.Copy(tmp, arg0) that succeeded: the content of arg0 afterwards
Copied(src) == src

UpgradeStart(p) ==
    /\ Begin(p, "u_curr")
    /\ \E f \in BOOLEAN : force' = [force EXCEPT ![p] = f]
    /\ UNCHANGED <<now, marker, fsVars, inputVars, netVars, gateAt>>

UpgradeCurrent(p) ==
    /\ pc[p] = "u_curr"
    /\ parses' = parses + 1
    /\ LET m == Make(currentVersion)
       IN  IF m.ok
           THEN /\ curr' = [curr EXCEPT ![p] = m.v]
                /\ Step(p, "current")
                /\ Goto(p, "u_avail")
                /\ UNCHANGED ret
           ELSE /\ Step(p, "currentFail")
                /\ Return(p, "Upgrade", FALSE,
                          Wrap("InvalidVersionFormat", "unable to get current version"),
                          "currentFail")
                /\ UNCHANGED curr
    /\ UNCHANGED <<now, marker, fsVars, inputVars, requests, notices, calls, callId,
                   force, avail, tmp, err, gateAt, pre>>

UpgradeAvailable(p) ==
    /\ pc[p] = "u_avail"
    /\ Request(p, "version", channelBody)
    /\ \E o \in HttpOutcomes :
         LET r == AvailableVersion(o)
         IN  IF r.err = Nil
             THEN /\ avail' = [avail EXCEPT ![p] = r.v]
                  /\ Step(p, "available")
                  /\ Goto(p, "u_cmp")
                  /\ UNCHANGED ret
             ELSE /\ Step(p, "availableFail")
                  /\ Return(p, "Upgrade", FALSE,
                            Wrap(r.err, "unable to get available version"),
                            "availableFail")
                  /\ UNCHANGED avail
    /\ UNCHANGED <<now, marker, fsVars, inputVars, notices, parses, calls, callId,
                   force, curr, tmp, err, gateAt, pre>>

UpgradeCompare(p) ==
    /\ pc[p] = "u_cmp"
    /\ IF UpToDate(force[p], curr[p], avail[p])
       THEN /\ Step(p, "upToDate")
            /\ Return(p, "Upgrade", FALSE, Nil, "upToDate")
       ELSE /\ Step(p, "proceed")
            /\ Goto(p, "u_rmbackup")
            /\ UNCHANGED ret
    /\ UNCHANGED <<now, marker, fsVars, inputVars, netVars, calls, callId, localVars, pre>>

\* RemoveBackup: os.Executable() fails
RemoveBackupNoExecutable(p) ==
    /\ pc[p] = "u_rmbackup"
    /\ Step(p, "executableFail")
    /\ Return(p, "Upgrade", FALSE, Wrap("SelfLocateError", "unable to find executable"),
              "executableFail")
    /\ UNCHANGED <<now, marker, fsVars, inputVars, netVars, calls, callId, localVars, pre>>

\* RemoveBackup: os.RemoveAll(backup) fails
RemoveBackupFail(p) ==
    /\ pc[p] = "u_rmbackup"
    /\ Step(p, "removeBackupFail")
    /\ Return(p, "Upgrade", FALSE, Wrap("RemoveError", "unable to remove backup"),
              "removeBackupFail")
    /\ UNCHANGED <<now, marker, fsVars, inputVars, netVars, calls, callId, localVars, pre>>

\* RemoveBackup: os.RemoveAll(backup) succeeds (also when there is no backup)
RemoveBackup(p) ==
    /\ pc[p] = "u_rmbackup"
    /\ backupFile' = Absent
    /\ Step(p, "removeBackup")
    /\ Goto(p, "d_temp")
    /\ UNCHANGED <<now, marker, selfFile, tmpFiles, inputVars, netVars, calls, callId,
                   localVars, pre, ret>>

\* Upgrade lines 185-191: Download returned an error
DownloadFailed(p, how) ==
    /\ Step(p, how)
    /\ Return(p, "Upgrade", FALSE, Wrap(how, "unable to upgrade"), how)

\* ioutil.TempFile fails: there is no temp file
DownloadTempFileFail(p) ==
    /\ pc[p] = "d_temp"
    /\ DownloadFailed(p, "tempFileFail")
    /\ UNCHANGED <<now, marker, fsVars, inputVars, netVars, calls, callId, localVars, pre>>

\* ioutil.TempFile creates an empty temp file
DownloadTempFile(p) ==
    /\ pc[p] = "d_temp"
    /\ tmpFiles' = Append(tmpFiles, Partial)
    /\ callId' = [callId EXCEPT ![p] = Len(tmpFiles) + 1]
    /\ Step(p, "tempFile")
    /\ Goto(p, "d_chmod")
    /\ UNCHANGED <<now, marker, selfFile, backupFile, inputVars, netVars, calls,
                   localVars, pre, ret>>

\* tmp.Chmod(0755) fails with an error other than "not supported by windows":
\* return before the deferred function is registered
DownloadChmodFail(p) ==
    /\ pc[p] = "d_chmod"
    /\ DownloadFailed(p, "chmodFail")
    /\ UNCHANGED <<now, marker, fsVars, inputVars, netVars, calls, callId, localVars, pre>>

\* tmp.Chmod(0755) succeeds, or fails with "not supported by windows"
DownloadChmod(p) ==
    /\ pc[p] = "d_chmod"
    /\ \E s \in {"chmod", "chmodNotSupported"} : Step(p, s)
    /\ Goto(p, "d_get")
    /\ UNCHANGED <<now, marker, fsVars, inputVars, netVars, calls, callId, localVars,
                   pre, ret>>

\* http.Get fails: err is set, the deferred function removes the temp file
DownloadGetFail(p) ==
    /\ pc[p] = "d_get"
    /\ Request(p, "binary", String(avail[p]))
    /\ err' = [err EXCEPT ![p] = "NetworkError"]
    /\ tmpFiles' = DeferredCleanup(tmpFiles, callId[p], err'[p])
    /\ DownloadFailed(p, "NetworkError")
    /\ UNCHANGED <<now, marker, selfFile, backupFile, inputVars, notices, parses, calls,
                   callId, force, curr, avail, tmp, gateAt, pre>>

\* http.Get succeeds with a status other than 200: the error returned is a
\* new value, the variable err still holds http.Get's nil
DownloadStatusFail(p) ==
    /\ pc[p] = "d_get"
    /\ Request(p, "binary", String(avail[p]))
    /\ err' = [err EXCEPT ![p] = Nil]
    /\ tmpFiles' = DeferredCleanup(tmpFiles, callId[p], err'[p])
    /\ DownloadFailed(p, "UnexpectedStatus")
    /\ UNCHANGED <<now, marker, selfFile, backupFile, inputVars, notices, parses, calls,
                   callId, force, curr, avail, tmp, gateAt, pre>>

\* http.Get succeeds with status 200
DownloadGet(p) ==
    /\ pc[p] = "d_get"
    /\ Request(p, "binary", String(avail[p]))
    /\ err' = [err EXCEPT ![p] = Nil]
    /\ Step(p, "get")
    /\ Goto(p, "d_copy")
    /\ UNCHANGED <<now, marker, fsVars, inputVars, notices, parses, calls, callId,
                   force, curr, avail, tmp, gateAt, pre, ret>>

\* io.Copy(tmp, resp.Body) fails: its error lives in the if statement's own
\* err, the function's err is still nil when the deferred function runs
DownloadCopyFail(p) ==
    /\ pc[p] = "d_copy"
    /\ tmpFiles' = DeferredCleanup([tmpFiles EXCEPT ![callId[p]] = Partial], callId[p], err[p])
    /\ DownloadFailed(p, "WriteError")
    /\ UNCHANGED <<now, marker, selfFile, backupFile, inputVars, netVars, calls, callId,
                   localVars, pre>>

\* io.Copy succeeds: the temp file holds the served binary; return tmpfn
DownloadCopy(p) ==
    /\ pc[p] = "d_copy"
    /\ tmpFiles' = DeferredCleanup([tmpFiles EXCEPT ![callId[p]] = Bin(String(avail[p]))],
                                   callId[p], err[p])
    /\ tmp' = [tmp EXCEPT ![p] = callId[p]]
    /\ Step(p, "download")
    /\ Goto(p, "u_rename")
    /\ UNCHANGED <<now, marker, selfFile, backupFile, inputVars, netVars, calls, callId,
                   force, curr, avail, err, gateAt, pre, ret>>

Download(p) ==
    \/ DownloadTempFileFail(p)
    \/ DownloadTempFile(p)
    \/ DownloadChmodFail(p)
    \/ DownloadChmod(p)
    \/ DownloadGetFail(p)
    \/ DownloadStatusFail(p)
    \/ DownloadGet(p)
    \/ DownloadCopyFail(p)
    \/ DownloadCopy(p)

\* os.Rename(arg0, backup) fails
UpgradeRenameFail(p) ==
    /\ pc[p] = "u_rename"
    /\ Step(p, "renameFail")
    /\ Return(p, "Upgrade", FALSE, Wrap("RenameError", "RenameToBackupError"), "renameFail")
    /\ UNCHANGED <<now, marker, fsVars, inputVars, netVars, calls, callId, localVars, pre>>

\* os.Rename(arg0, backup) succeeds
UpgradeRename(p) ==
    /\ pc[p] = "u_rename"
    /\ selfFile # Absent
    /\ selfFile' = BackedUp(selfFile, backupFile).self
    /\ backupFile' = BackedUp(selfFile, backupFile).backup
    /\ Step(p, "rename")
    /\ Goto(p, "u_copy")
    /\ UNCHANGED <<now, marker, tmpFiles, inputVars, netVars, calls, callId, localVars,
                   pre, ret>>

\* shutil.Copy fails before arg0 is created
UpgradeCopyCreateFail(p) ==
    /\ pc[p] = "u_copy"
    /\ err' = [err EXCEPT ![p] = "CopyError"]
    /\ Step(p, "copyFail")
    /\ Goto(p, "u_recover")
    /\ UNCHANGED <<now, marker, fsVars, inputVars, netVars, calls, callId,
                   force, curr, avail, tmp, gateAt, pre, ret>>

\* shutil.Copy creates arg0 (os.Create) and starts writing
UpgradeCopyCreate(p) ==
    /\ pc[p] = "u_copy"
    /\ tmpFiles[tmp[p]] # Absent
    /\ selfFile' = Partial
    /\ Step(p, "copyCreate")
    /\ Goto(p, "u_copywrite")
    /\ UNCHANGED <<now, marker, backupFile, tmpFiles, inputVars, netVars, calls, callId,
                   localVars, pre, ret>>

\* shutil.Copy fails while writing arg0, or after writing it (copying the mode)
UpgradeCopyWriteFail(p) ==
    /\ pc[p] = "u_copywrite"
    /\ selfFile' \in {Partial, Copied(tmpFiles[tmp[p]])}
    /\ err' = [err EXCEPT ![p] = "CopyError"]
    /\ Step(p, "copyFail")
    /\ Goto(p, "u_recover")
    /\ UNCHANGED <<now, marker, backupFile, tmpFiles, inputVars, netVars, calls, callId,
                   force, curr, avail, tmp, gateAt, pre, ret>>

\* shutil.Copy succeeds
UpgradeCopyWrite(p) ==
    /\ pc[p] = "u_copywrite"
    /\ selfFile' = Copied(tmpFiles[tmp[p]])
    /\ err' = [err EXCEPT ![p] = Nil]
    /\ Step(p, "copy")
    /\ Goto(p, "u_rmtemp")
    /\ UNCHANGED <<now, marker, backupFile, tmpFiles, inputVars, netVars, calls, callId,
                   force, curr, avail, tmp, gateAt, pre, ret>>

\* lines 205-213: the recovery os.Rename(backup, arg0) fails
UpgradeRecoverFail(p) ==
    /\ pc[p] = "u_recover"
    /\ err' = [err EXCEPT ![p] = "RenameError"]
    /\ Step(p, "recoverFail")
    /\ Return(p, "Upgrade", FALSE, Wrap(err'[p], "UpgradeFailedUnrecoverable"), "recoverFail")
    /\ UNCHANGED <<now, marker, fsVars, inputVars, netVars, calls, callId,
                   force, curr, avail, tmp, gateAt, pre>>

\* lines 205, 214-219: the recovery rename succeeds and assigns nil to err,
\* which is the err the return statement wraps
UpgradeRecover(p) ==
    /\ pc[p] = "u_recover"
    /\ backupFile # Absent
    /\ selfFile' = Restored(selfFile, backupFile).self
    /\ backupFile' = Restored(selfFile, backupFile).backup
    /\ err' = [err EXCEPT ![p] = Nil]
    /\ Step(p, "recover")
    /\ Return(p, "Upgrade", FALSE, Wrap(err'[p], "UpgradeFailedRecovered"), "recover")
    /\ UNCHANGED <<now, marker, tmpFiles, inputVars, netVars, calls, callId,
                   force, curr, avail, tmp, gateAt, pre>>

\* os.Remove(tmp) fails
UpgradeRemoveTempFail(p) ==
    /\ pc[p] = "u_rmtemp"
    /\ Step(p, "removeTempFail")
    /\ Return(p, "Upgrade", FALSE, Wrap("RemoveError", "TempCleanupError"), "removeTempFail")
    /\ UNCHANGED <<now, marker, fsVars, inputVars, netVars, calls, callId, localVars, pre>>

\* os.Remove(tmp) succeeds; return nil
UpgradeRemoveTemp(p) ==
    /\ pc[p] = "u_rmtemp"
    /\ tmpFiles' = [tmpFiles EXCEPT ![tmp[p]] = Absent]
    /\ Step(p, "removeTemp")
    /\ Return(p, "Upgrade", FALSE, Nil, "upgraded")
    /\ UNCHANGED <<now, marker, selfFile, backupFile, inputVars, netVars, calls, callId,
                   localVars, pre>>

Upgrade(p) ==
    \/ UpgradeStart(p)
    \/ UpgradeCurrent(p)
    \/ UpgradeAvailable(p)
    \/ UpgradeCompare(p)
    \/ RemoveBackupNoExecutable(p)
    \/ RemoveBackupFail(p)
    \/ RemoveBackup(p)
    \/ Download(p)
    \/ UpgradeRenameFail(p)
    \/ UpgradeRename(p)
    \/ UpgradeCopyCreateFail(p)
    \/ UpgradeCopyCreate(p)
    \/ UpgradeCopyWriteFail(p)
    \/ UpgradeCopyWrite(p)
    \/ UpgradeRecoverFail(p)
    \/ UpgradeRecover(p)
    \/ UpgradeRemoveTempFail(p)
    \/ UpgradeRemoveTemp(p)

Next ==
    \/ Tick
    \/ \E p \in Procs : CheckAndNotifyIfOutOfDate(p)
    \/ \E p \in Procs : Upgrade(p)

NextCheck ==
    \/ Tick
    \/ \E p \in Procs : CheckAndNotifyIfOutOfDate(p)

NextUpgrade == \E p \in Procs : Upgrade(p)

Spec == Init /\ [][Next]_vars

\* the README's main: CheckAndNotifyIfOutOfDate first, Upgrade after it
MainCheck(p) ==
    /\ pc[p] = "idle" => ret[p].op = "none"
    /\ CheckAndNotifyIfOutOfDate(p)

MainUpgrade(p) ==
    /\ pc[p] = "idle" => ret[p].op = "Check"
    /\ Upgrade(p)

NextMain ==
    \/ Tick
    \/ \E p \in Procs : MainCheck(p)
    \/ \E p \in Procs : MainUpgrade(p)

SpecMain == InitMain /\ [][NextMain]_vars

\* the README's main as written: Upgrade, not forced, if the check returned true
ReadmeUpgrade(p) ==
    /\ pc[p] = "idle" => (ret[p].op = "Check" /\ ret[p].val)
    /\ Upgrade(p)
    /\ pc[p] = "idle" => ~force'[p]

NextRace ==
    \/ Tick
    \/ \E p \in Procs : MainCheck(p)
    \/ \E p \in Procs : ReadmeUpgrade(p)

SpecRace == InitRace /\ [][NextRace]_vars

SpecCheck == InitCheck /\ [][NextCheck]_vars

SpecUpgrade == InitUpgrade /\ [][NextUpgrade]_vars

\* ------------------------------------------------------------------------
\* Properties
\* ------------------------------------------------------------------------
UpgradeLabels ==
    {"u_curr", "u_avail", "u_cmp", "u_rmbackup", "d_temp", "d_chmod", "d_get", "d_copy",
     "u_rename", "u_copy", "u_copywrite", "u_recover", "u_rmtemp"}

\* p's last call was op and it has returned
Done(p, op) == pc[p] = "idle" /\ ret[p].op = op

\* p is inside a call of Upgrade or has just returned from one
InUpgrade(p) == pc[p] \in UpgradeLabels \/ Done(p, "Upgrade")

\* the running or last call of p took step s
Took(p, s) == \E i \in 1..Len(steps[p]) : steps[p][i] = s

\* the first position of step s in the call of p (0: not taken)
Pos(p, s) == IndexOf(steps[p], s)

FailSteps ==
    {"currentFail", "availableFail", "executableFail", "removeBackupFail", "tempFileFail",
     "chmodFail", "NetworkError", "UnexpectedStatus", "WriteError", "renameFail",
     "copyFail", "recoverFail", "removeTempFail", "openFail", "statFail", "truncateFail"}

NoStepFailed(p) == \A i \in 1..Len(steps[p]) : steps[p][i] \notin FailSteps

\* a complete executable was at selfPath when the call of p began
StartedComplete(p) == pre[p].self.kind \in {"orig", "bin"}

\* the disk at selfPath, selfPath~ and the temp files is as it was when the call began
DiskUntouched(p) ==
    /\ selfFile = pre[p].self
    /\ backupFile = pre[p].backup
    /\ tmpFiles = pre[p].tmps

\* the requests of kind k issued since the call of p began
RequestsSince(p, k) == {i \in (pre[p].nreq + 1)..Len(requests) : requests[i].kind = k}

\* the age of the marker, in hours, when the call of p began
AgeAtCall(p) == pre[p].at - pre[p].marker.mtime

\* C1 (as claimed): when the copy into selfPath fails and the recovery rename
\* succeeds, Upgrade returns a non-nil error and selfPath holds the bytes the
\* executable had before Upgrade was called.
C1_RecoveredReturnsError ==
    \A p \in Procs :
        (Done(p, "Upgrade") /\ Took(p, "copyFail") /\ Took(p, "recover"))
            => (ret[p].err # Nil /\ selfFile = pre[p].self)

\* C2: an Upgrade with available newer than current in which every step
\* succeeds returns nil, leaves at selfPath the bytes the binary endpoint serves
\* for the channel's version, at selfPath~ the original bytes, and no temp file.
C2_SuccessInstallsNewKeepsBackup ==
    \A p \in Procs :
        (/\ Done(p, "Upgrade")
         /\ Make(currentVersion).ok /\ Make(channelBody).ok
         /\ GT(Make(channelBody).v, Make(currentVersion).v)
         /\ NoStepFailed(p))
            => (/\ ret[p].err = Nil
                /\ selfFile = Bin(channelBody)
                /\ backupFile = pre[p].self
                /\ callId[p] # 0
                /\ tmpFiles[callId[p]] = Absent)

C2_Witness ==
    \E p \in Procs :
        /\ Done(p, "Upgrade") /\ ~force[p] /\ NoStepFailed(p)
        /\ currentVersion = V122 /\ channelBody = V123
        /\ selfFile = Bin(V123) /\ backupFile = Orig /\ pre[p].backup = Stale

\* C3: in every state of an Upgrade run that began with a complete executable
\* at selfPath, the original bytes are at selfPath or at selfPath~, or the
\* complete new binary is at selfPath.
C3_OriginalOrReplacementOnDisk ==
    \A p \in Procs :
        (InUpgrade(p) /\ StartedComplete(p))
            => (\/ selfFile = pre[p].self
                \/ backupFile = pre[p].self
                \/ (Took(p, "copy") /\ selfFile = Bin(String(avail[p]))))

C3_Witness ==
    \E p \in Procs :
        /\ pc[p] = "u_recover" /\ StartedComplete(p)
        /\ selfFile = Partial /\ backupFile = pre[p].self

\* C4: a non-forced Upgrade with current >= available returns nil, and has
\* changed nothing at selfPath, selfPath~ or the temp files and has issued no
\* binary download request.
C4_UpToDateTouchesNothing ==
    \A p \in Procs :
        (/\ InUpgrade(p) /\ ~force[p]
         /\ Make(currentVersion).ok /\ Make(channelBody).ok
         /\ GTE(Make(currentVersion).v, Make(channelBody).v))
            => (/\ DiskUntouched(p)
                /\ RequestsSince(p, "binary") = {}
                /\ marker = pre[p].marker
                /\ (Done(p, "Upgrade") /\ Took(p, "available")) => ret[p].err = Nil)

C4_Witness ==
    \E p \in Procs :
        /\ Done(p, "Upgrade") /\ ~force[p] /\ ret[p].how = "upToDate"
        /\ curr[p] = avail[p] /\ backupFile = Stale

\* C5: a forced Upgrade whose two versions resolve never takes the up-to-date
\* return, whatever the order of the versions; when no step fails it removes
\* the backup, downloads, renames selfPath to the backup and copies the temp
\* file to selfPath, in this order.
C5_ForceRunsFullSequence ==
    \A p \in Procs :
        (Done(p, "Upgrade") /\ force[p] /\ Took(p, "available"))
            => (/\ Took(p, "proceed")
                /\ ret[p].how # "upToDate"
                /\ NoStepFailed(p) =>
                     (/\ 0 < Pos(p, "removeBackup")
                      /\ Pos(p, "removeBackup") < Pos(p, "download")
                      /\ Pos(p, "download") < Pos(p, "rename")
                      /\ Pos(p, "rename") < Pos(p, "copy")
                      /\ Cardinality(RequestsSince(p, "binary")) = 1
                      /\ selfFile = Bin(channelBody)))

C5_Witness ==
    \E p \in Procs :
        /\ Done(p, "Upgrade") /\ force[p] /\ GT(curr[p], avail[p])
        /\ NoStepFailed(p) /\ selfFile = Bin(channelBody)

\* C6 (as claimed): for an existing marker that can be opened, read and
\* truncated, the call issues no request when the marker's age is below the
\* interval, issues the version request when the age is at least the interval,
\* and a call that issued the request has reset the marker's mtime to now.
C6_GateDecidesRequest ==
    \A p \in Procs :
        (/\ Done(p, "Check") /\ pre[p].marker.exists
         /\ ~Took(p, "openFail") /\ ~Took(p, "statFail") /\ ~Took(p, "truncateFail"))
            => (/\ AgeAtCall(p) < hoursToCheck => RequestsSince(p, "version") = {}
                /\ AgeAtCall(p) >= hoursToCheck => RequestsSince(p, "version") # {}
                /\ RequestsSince(p, "version") # {} => marker.mtime = gateAt[p])

\* C6 (amended): as C6, but at an age of at least the interval the request is
\* issued only if the current version string parses; the marker is reset to
\* now in either case.
C6_GateDecidesRequestIfCurrentParses ==
    \A p \in Procs :
        (/\ Done(p, "Check") /\ pre[p].marker.exists
         /\ ~Took(p, "openFail") /\ ~Took(p, "statFail") /\ ~Took(p, "truncateFail"))
            => (/\ AgeAtCall(p) < hoursToCheck => RequestsSince(p, "version") = {}
                /\ (AgeAtCall(p) >= hoursToCheck /\ Make(currentVersion).ok)
                     => Cardinality(RequestsSince(p, "version")) = 1
                /\ (AgeAtCall(p) >= hoursToCheck /\ ~Make(currentVersion).ok)
                     => RequestsSince(p, "version") = {}
                /\ AgeAtCall(p) >= hoursToCheck
                     => (marker.mtime = gateAt[p] /\ gateAt[p] = pre[p].at /\ marker.size = 0))

C6_Witness ==
    \E p \in Procs :
        /\ Done(p, "Check") /\ pre[p].marker.exists
        /\ hoursToCheck > 0 /\ AgeAtCall(p) = hoursToCheck
        /\ RequestsSince(p, "version") # {}
        /\ marker.mtime = gateAt[p] /\ marker.mtime > pre[p].marker.mtime

\* C7: a call that finds an existing marker younger than the interval returns
\* (false, nil) and has parsed no version, issued no request, printed no
\* notice and left the marker's mtime and content as they were.
C7_SkipDoesNothing ==
    \A p \in Procs :
        (/\ Done(p, "Check") /\ pre[p].marker.exists
         /\ AgeAtCall(p) < hoursToCheck
         /\ ~Took(p, "openFail") /\ ~Took(p, "statFail"))
            => (/\ ret[p].val = FALSE /\ ret[p].err = Nil
                /\ parses = pre[p].parses
                /\ Len(requests) = pre[p].nreq
                /\ notices = pre[p].notices
                /\ marker = pre[p].marker)

C7_Witness ==
    \E p \in Procs :
        /\ Done(p, "Check") /\ ret[p].how = "skip"
        /\ pre[p].marker.exists /\ marker.size = 1 /\ marker.mtime < gateAt[p]

\* C8: once the gate has passed (the marker is truncated), the call returns
\* true and prints one notice exactly when both versions resolve and available
\* is greater than current; it returns (false, nil) when they resolve and
\* available is not greater; it returns false and an error when the current
\* version does not parse or the available version is not resolved.
C8_NoticeIffNewer ==
    \A p \in Procs :
        (Done(p, "Check") /\ Took(p, "truncate"))
            => LET c == Make(currentVersion)
                   a == Make(channelBody)
                   resolved == c.ok /\ Took(p, "available")
               IN  /\ ret[p].val = (resolved /\ GT(a.v, c.v))
                   /\ ret[p].val => (ret[p].err = Nil /\ notices = pre[p].notices + 1)
                   /\ ~ret[p].val => notices = pre[p].notices
                   /\ (resolved /\ ~GT(a.v, c.v)) => ret[p].err = Nil
                   /\ ~resolved => ret[p].err # Nil
                   /\ Took(p, "available") => a.ok

C8_Witness ==
    \E p \in Procs :
        /\ Done(p, "Check") /\ Took(p, "truncate")
        /\ ret[p].val /\ notices = pre[p].notices + 1
        /\ currentVersion = V123 /\ channelBody = V1100

\* C9: when an Upgrade that began with a complete executable at selfPath
\* returns, other than from the failed recovery, selfPath holds the complete
\* original or the complete new binary.
C9_SelfCompleteUnlessUnrecoverable ==
    \A p \in Procs :
        (Done(p, "Upgrade") /\ StartedComplete(p) /\ ret[p].how # "recoverFail")
            => (\/ selfFile = pre[p].self
                \/ (Took(p, "copy") /\ selfFile = Bin(String(avail[p]))))

C9_Witness ==
    \E p \in Procs :
        /\ Done(p, "Upgrade") /\ StartedComplete(p) /\ ret[p].how = "recover"
        /\ Took(p, "copyCreate") /\ selfFile = pre[p].self /\ backupFile = Absent

\* C10 (as claimed): when Download fails after it created its temp file (chmod,
\* transport, status, streaming), the temp file is gone when it returns.
C10_FailedDownloadRemovesTemp ==
    \A p \in Procs :
        (/\ Done(p, "Upgrade") /\ Took(p, "tempFile")
         /\ ret[p].how \in {"chmodFail", "NetworkError", "UnexpectedStatus", "WriteError"})
            => tmpFiles[callId[p]] = Absent

DownloadFailures == {"tempFileFail", "chmodFail", "NetworkError", "UnexpectedStatus", "WriteError"}

\* C11 (as claimed): when the download step fails, Upgrade returns an error
\* and selfPath, selfPath~ and the temp files are as they were before the call.
C11_FailedDownloadTouchesNothing ==
    \A p \in Procs :
        (Done(p, "Upgrade") /\ ret[p].how \in DownloadFailures)
            => (ret[p].err # Nil /\ ~Took(p, "rename") /\ DiskUntouched(p))

\* C11 (amended): when the download step fails, Upgrade returns an error,
\* selfPath holds the original bytes and nothing was renamed; the backup at
\* selfPath~ has been removed, the temp files of earlier calls are unchanged,
\* and the call's own temp file is gone after a transport error and left on
\* disk after a chmod, status or streaming failure.
C11_FailedDownloadKeepsExecutable ==
    \A p \in Procs :
        (Done(p, "Upgrade") /\ ret[p].how \in DownloadFailures)
            => (/\ ret[p].err # Nil
                /\ ~Took(p, "rename")
                /\ selfFile = pre[p].self
                /\ backupFile = Absent
                /\ SubSeq(tmpFiles, 1, Len(pre[p].tmps)) = pre[p].tmps
                /\ ret[p].how = "tempFileFail" => tmpFiles = pre[p].tmps
                /\ ret[p].how # "tempFileFail" => Len(tmpFiles) = Len(pre[p].tmps) + 1
                /\ ret[p].how = "NetworkError" => tmpFiles[callId[p]] = Absent
                /\ ret[p].how \in {"chmodFail", "UnexpectedStatus", "WriteError"}
                     => tmpFiles[callId[p]] = Partial)

C11_Witness ==
    \E p \in Procs :
        /\ Done(p, "Upgrade") /\ ret[p].how = "NetworkError"
        /\ pre[p].backup = Stale /\ backupFile = Absent
        /\ selfFile = Orig /\ tmpFiles[callId[p]] = Absent

\* C12: when the rename of selfPath to selfPath~ fails, Upgrade returns an
\* error, selfPath holds the original bytes, no copy into selfPath was
\* attempted and the downloaded temp file is still on disk.
C12_RenameFailureKeepsExecutableAndTemp ==
    \A p \in Procs :
        (Done(p, "Upgrade") /\ ret[p].how = "renameFail")
            => (/\ ret[p].err # Nil
                /\ selfFile = pre[p].self
                /\ ~Took(p, "copyCreate") /\ ~Took(p, "copyFail") /\ ~Took(p, "copy")
                /\ tmp[p] # 0
                /\ tmpFiles[tmp[p]] = Bin(channelBody))

C12_Witness ==
    \E p \in Procs :
        /\ Done(p, "Upgrade") /\ ret[p].how = "renameFail"
        /\ selfFile = Orig /\ tmpFiles[tmp[p]] = Bin(V123)

\* C13: when the copy fails and the recovery rename fails, Upgrade returns an
\* error that is neither nil nor the error of the recovered failure, the
\* original bytes are at selfPath~ and the temp file is still on disk.
C13_UnrecoverableKeepsBackupAndTemp ==
    \A p \in Procs :
        (Done(p, "Upgrade") /\ Took(p, "copyFail") /\ Took(p, "recoverFail"))
            => (/\ ret[p].err # Nil
                /\ ret[p].err # Wrap("CopyError", "UpgradeFailedRecovered")
                /\ ret[p].err # Wrap(Nil, "UpgradeFailedRecovered")
                /\ backupFile = pre[p].self
                /\ tmpFiles[tmp[p]] = Bin(channelBody))

C13_Witness ==
    \E p \in Procs :
        /\ Done(p, "Upgrade") /\ ret[p].how = "recoverFail"
        /\ selfFile = Partial /\ backupFile = Orig /\ tmpFiles[tmp[p]] = Bin(V123)

\* C14: when the copy succeeds and the removal of the temp file fails,
\* Upgrade returns an error, selfPath holds the complete new binary, selfPath~
\* holds the original bytes, and no recovery rename was attempted.
C14_TempCleanupFailureKeepsUpgrade ==
    \A p \in Procs :
        (Done(p, "Upgrade") /\ Took(p, "copy") /\ Took(p, "removeTempFail"))
            => (/\ ret[p].err # Nil
                /\ selfFile = Bin(channelBody)
                /\ backupFile = pre[p].self
                /\ ~Took(p, "recover") /\ ~Took(p, "recoverFail")
                /\ tmpFiles[tmp[p]] = Bin(channelBody))

C14_Witness ==
    \E p \in Procs :
        /\ Done(p, "Upgrade") /\ ret[p].how = "removeTempFail"
        /\ selfFile = Bin(V123) /\ backupFile = Orig /\ tmpFiles[tmp[p]] # Absent

\* C20: when the current version string does not parse or the available
\* version is not resolved (transport error, status, read error, unparsable
\* body), Upgrade returns an error, forced or not, and has changed nothing at
\* selfPath, selfPath~ or the temp files and issued no binary request.
C20_VersionFailureTouchesNothing ==
    \A p \in Procs :
        /\ (Done(p, "Upgrade") /\ (~Make(currentVersion).ok \/ Took(p, "availableFail")))
              => (/\ ret[p].err # Nil
                  /\ DiskUntouched(p)
                  /\ RequestsSince(p, "binary") = {}
                  /\ ~Took(p, "proceed") /\ ~Took(p, "removeBackup"))
        /\ (InUpgrade(p) /\ ~Make(currentVersion).ok) => RequestsSince(p, "version") = {}
        /\ (InUpgrade(p) /\ ~Make(channelBody).ok) => ~Took(p, "available")

C20_Witness ==
    \E p \in Procs :
        /\ Done(p, "Upgrade") /\ force[p] /\ ret[p].how = "availableFail"
        /\ channelBody = V12 /\ backupFile = Stale /\ ret[p].err # Nil

CheckLabels == {"c_open", "c_gate", "c_trunc", "c_curr", "c_avail", "c_cmp"}

\* p is inside a call of CheckAndNotifyIfOutOfDate or has just returned from one
InCheck(p) == pc[p] \in CheckLabels \/ Done(p, "Check")

\* the positions in requests of the GETs of the version channel
VersionRequests == {i \in 1..Len(requests) : requests[i].kind = "version"}

\* C15: in a sequence of calls of CheckAndNotifyIfOutOfDate made one after the
\* other, any two version requests are at least the interval apart, whatever
\* the earlier call returned; a call that passed the gate has reset the marker
\* before it parses or fetches anything.
C15_RequestsAtLeastIntervalApart ==
    /\ \A i, j \in VersionRequests :
          i < j => requests[j].at - requests[i].at >= hoursToCheck
    /\ \A p \in Procs :
          (InCheck(p) /\ Took(p, "truncate")) => marker.mtime = gateAt[p]

C15_Witness ==
    \E p \in Procs :
        /\ Done(p, "Check") /\ ret[p].val /\ notices = 1
        /\ hoursToCheck > 0 /\ Len(requests) = 2
        /\ requests[2].at - requests[1].at = hoursToCheck

\* C18: with no marker file and a positive interval, the call creates the
\* marker with mtime now and returns (false, nil) without a request; a version
\* request is only made by a call that found a marker at least the interval old.
C18_FirstCallCreatesMarkerAndSkips ==
    \A p \in Procs :
        /\ (/\ Done(p, "Check") /\ ~pre[p].marker.exists /\ hoursToCheck > 0
            /\ ~Took(p, "openFail") /\ ~Took(p, "statFail"))
              => (/\ ret[p].how = "skip" /\ ret[p].val = FALSE /\ ret[p].err = Nil
                  /\ RequestsSince(p, "version") = {}
                  /\ marker = [exists |-> TRUE, mtime |-> pre[p].at, size |-> 0])
        /\ (InCheck(p) /\ hoursToCheck > 0 /\ RequestsSince(p, "version") # {})
              => (pre[p].marker.exists /\ AgeAtCall(p) >= hoursToCheck)

C18_Witness ==
    \E p \in Procs :
        /\ Done(p, "Check") /\ ret[p].how = "skip"
        /\ ~pre[p].marker.exists /\ hoursToCheck > 0
        /\ pre[p].at > 0 /\ marker.exists /\ marker.mtime = pre[p].at

\* the call of p began with a complete executable at selfPath and a selfPath~
\* that is not a copy of it
StartedDistinct(p) == StartedComplete(p) /\ pre[p].backup # pre[p].self

\* the state of the executable slot in the run of p (spec.md section 4.5),
\* read from the disk and from where Upgrade stands
Slot(p) ==
    IF selfFile = pre[p].self /\ backupFile # pre[p].self THEN "ORIGINAL"
    ELSE IF backupFile # pre[p].self THEN "LOST"
    ELSE IF pc[p] = "u_rmtemp" \/ ret[p].how \in {"upgraded", "removeTempFail"}
         THEN (IF selfFile = Bin(String(avail[p])) THEN "UPGRADED" ELSE "LOST")
    ELSE IF ret[p].how = "recoverFail" THEN "MISSING"
    ELSE "BACKED_UP"

SlotTransitions ==
    {<<"ORIGINAL", "BACKED_UP">>, <<"BACKED_UP", "UPGRADED">>,
     <<"BACKED_UP", "ORIGINAL">>, <<"BACKED_UP", "MISSING">>}

\* the step a transition of p's call has just taken
LastStep(p) == steps[p][Len(steps[p])]

\* C16: each step of an Upgrade run leaves the slot where it is or moves it
\* ORIGINAL -> BACKED_UP (the rename, after backup removal and download),
\* BACKED_UP -> UPGRADED (copy succeeded), BACKED_UP -> ORIGINAL (recovery
\* rename succeeded) or BACKED_UP -> MISSING (recovery rename failed); backup
\* removal and download leave it ORIGINAL; UPGRADED stays UPGRADED, and the
\* run ends with the step that restores ORIGINAL or reaches MISSING.
C16_SlotTransitions ==
    [][\A p \in Procs :
         (pc[p] \in UpgradeLabels /\ StartedDistinct(p))
            => LET a == Slot(p)
                   b == Slot(p)'
                   s == LastStep(p)'
               IN  /\ a = b \/ <<a, b>> \in SlotTransitions
                   /\ (a = "ORIGINAL" /\ b = "BACKED_UP")
                        => (s = "rename" /\ Took(p, "removeBackup") /\ Took(p, "download"))
                   /\ s = "rename" => (a = "ORIGINAL" /\ b = "BACKED_UP")
                   /\ s = "copy" => (a = "BACKED_UP" /\ b = "UPGRADED")
                   /\ s = "recover" => (a = "BACKED_UP" /\ b = "ORIGINAL")
                   /\ s = "recoverFail" => (a = "BACKED_UP" /\ b = "MISSING")
                   /\ s \in {"removeBackup", "tempFile", "get", "download"} \cup DownloadFailures
                        => (a = "ORIGINAL" /\ b = "ORIGINAL")
                   /\ a = "UPGRADED" => b = "UPGRADED"
                   /\ (a = "BACKED_UP" /\ b \in {"ORIGINAL", "MISSING"}) => pc'[p] = "idle"
    ]_vars

C16_Witness ==
    \E p \in Procs :
        /\ Done(p, "Upgrade") /\ StartedDistinct(p) /\ Slot(p) = "MISSING"
        /\ Took(p, "removeBackup") /\ Took(p, "download") /\ Took(p, "rename")
        /\ pre[p].backup = Stale

\* C19: with both versions resolved, a check that passed the gate returns
\* true exactly when a non-forced Upgrade with the same versions does not take
\* the up-to-date return; so once a check has printed its notice a non-forced
\* Upgrade goes on to the replacement sequence, and with equal versions the
\* check returns false and Upgrade changes nothing.
C19_CheckAgreesWithUpgrade ==
    \A p \in Procs :
        LET c == Make(currentVersion).v
            a == Make(channelBody).v
            compared == InUpgrade(p) /\ ~force[p] /\ Took(p, "available") /\ pc[p] # "u_cmp"
        IN  /\ (Done(p, "Check") /\ Took(p, "truncate") /\ Took(p, "available"))
                 => (ret[p].val = ~UpToDate(FALSE, c, a))
            /\ compared => (Took(p, "proceed") = OutOfDate(a, c))
            /\ (compared /\ notices >= 1) => Took(p, "proceed")
            /\ (compared /\ c = a /\ Done(p, "Upgrade"))
                 => (ret[p].how = "upToDate" /\ ret[p].err = Nil /\ DiskUntouched(p))
            /\ (Done(p, "Check") /\ Took(p, "available") /\ c = a) => ~ret[p].val

C19_Witness ==
    \E p \in Procs :
        /\ notices = 1 /\ pre[p].notices = 1
        /\ Done(p, "Upgrade") /\ ~force[p] /\ ret[p].how = "upgraded"
        /\ selfFile = Bin(channelBody)

\* the labels of Upgrade from RemoveBackup on: the replacement sequence
ReplacementLabels ==
    {"u_rmbackup", "d_temp", "d_chmod", "d_get", "d_copy",
     "u_rename", "u_copy", "u_copywrite", "u_recover", "u_rmtemp"}

\* C17: two processes on the same tool and executable are not kept apart:
\* while one has passed the gate and not yet truncated the marker, the gate
\* lets the other pass as well, and while one is inside the replacement
\* sequence the other can still enter it by removing the shared backup.
C17_NothingExcludesSecondProcess ==
    \A p, q \in Procs :
        p # q =>
            /\ (pc[q] = "c_trunc" /\ pc[p] = "c_gate")
                 => (~GateSkips(now, marker.mtime, hoursToCheck) /\ ENABLED CheckGatePass(p))
            /\ (pc[q] \in ReplacementLabels /\ pc[p] = "u_rmbackup")
                 => ENABLED RemoveBackup(p)

C17_Witness ==
    /\ hoursToCheck > 0
    /\ gateAt[1] = gateAt[2] /\ marker.mtime = gateAt[1]
    /\ pc[1] = "u_copywrite" /\ pc[2] = "u_copywrite"
    /\ notices = 2

====
